---- MODULE Spec2Model ----
(***************************************************************************)
(* A model of the project assistant: the bounded conversation history of  *)
(* web_app.py (ConversationManager) and the file-per-record store of      *)
(* project_management.py (ProjectManager).                                 *)
(***************************************************************************)
EXTENDS Integers, Sequences, FiniteSets, TLC

(***************************************************************************)
(* Bounds of the model.                                                    *)
(***************************************************************************)
\* largest max_history_length a ConversationManager is constructed with
MaxCapacity == 2
\* most add_message calls between two resets
MaxAdds == 3
\* the clock runs from instant 0 to instant MaxNow
MaxNow == 3
\* most records appended by callers (the seed records come on top)
MaxAppends == 1
\* largest window, in days, a summary is asked for
MaxDays == 2
\* most writes a failing storage still takes before it raises OSError
MaxLeft == 2
\* most seedings of the constructor that end in a storage failure
MaxSeedFailures == 2
\* most DevAssistant.run calls served
MaxChats == 2

VARIABLES
    \* ---- web_app.py: ConversationManager
    history,             \* self.history, a list of {"role", "content"} dicts
    max_history_length,  \* self.max_history_length
    messages,            \* the list the last get_context_messages() returned
    added,               \* history variable: every turn added since the last reset
    \* ---- project_management.py: ProjectManager and the files it keeps
    now,                 \* datetime.now(), in ticks
    fs,                  \* the project root: directories, files, state of the storage
    pm,                  \* the live ProjectManager object (its project_name), or NoObject
    uuids,               \* number of uuid.uuid4() calls made so far
    ret,                 \* outcome of the last call: what it returned or raised
    appended,            \* history variable: every append made, in order
    writers,             \* the log_* calls running concurrently, each at its step
    \* ---- web_app.py: DevAssistant.run
    run,                 \* the run call being served: its position and its locals
    chats,               \* number of run calls started so far
    origin               \* history variable: the chat session each turn of `added`
                         \* was appended for

convVars == <<history, max_history_length, messages, added>>
storeVars == <<now, fs, pm, uuids, ret, appended, writers>>
chatVars == <<run, chats, origin>>

vars == <<convVars, storeVars, chatVars>>

(***************************************************************************)
(* Small helpers.                                                          *)
(***************************************************************************)
Min(a, b) == IF a < b THEN a ELSE b

\* list.pop(0): the list without its first element
Pop0(list) == SubSeq(list, 2, Len(list))

\* the last k elements of a list
LastK(list, k) == SubSeq(list, Len(list) - k + 1, Len(list))

(***************************************************************************)
(* web_app.py: ConversationManager                                         *)
(***************************************************************************)
Roles == {"user", "assistant"}
Contents == {"q1", "q2"}

\* a turn as add_message stores it
Turn(role, content) == [role |-> role, content |-> content]

\* ConversationManager.add_message putting the new turn first
add_message_prepend(h, cap, role, content) ==
    <<Turn(role, content)>> \o (IF Len(h) >= cap THEN Pop0(h) ELSE h)

\* ConversationManager.add_message with the comparison off by one
add_message_offbyone(h, cap, role, content) ==
    Append(IF Len(h) > cap THEN Pop0(h) ELSE h, Turn(role, content))

\* ConversationManager.add_message: the history after the call
add_message(h, cap, role, content) ==
    Append(IF Len(h) >= cap THEN Pop0(h) ELSE h, Turn(role, content))

\* ConversationManager.get_context_messages: a fresh list of fresh dicts
get_context_messages(h) ==
    [i \in 1..Len(h) |-> [role |-> h[i].role, content |-> h[i].content]]

\* ConversationManager.reset: self.history.clear()
reset(h) == <<>>

\* conversation_manager = ConversationManager(max_history_length = cap)
ConvInit ==
    /\ max_history_length \in 1..MaxCapacity
    /\ history = <<>>
    /\ messages = <<>>
    /\ added = <<>>

AddMessage(role, content) ==
    /\ Len(added) < MaxAdds
    /\ history' = add_message(history, max_history_length, role, content)
    /\ added' = Append(added, Turn(role, content))
    /\ UNCHANGED <<max_history_length, messages, storeVars, chatVars>>

GetContextMessages ==
    /\ messages' = get_context_messages(history)
    /\ UNCHANGED <<history, max_history_length, added, storeVars, chatVars>>

Reset ==
    /\ history' = reset(history)
    /\ added' = <<>>
    /\ UNCHANGED <<max_history_length, messages, storeVars, chatVars>>

NextConv ==
    \/ \E role \in Roles, content \in Contents : AddMessage(role, content)
    \/ GetContextMessages
    \/ Reset

(***************************************************************************)
(* C1: after any sequence of add_message and reset calls,                  *)
(* get_context_messages returns exactly the last min(n, capacity) turns    *)
(* added since the most recent reset, in the order they were added; the    *)
(* buffer never holds more than capacity turns, and after a reset the      *)
(* snapshot is empty.                                                      *)
(***************************************************************************)
C1_SnapshotIsLastTurns ==
    LET k == Min(Len(added), max_history_length) IN
    /\ get_context_messages(history) = LastK(added, k)
    /\ Len(history) <= max_history_length
    /\ (added = <<>> => get_context_messages(history) = <<>>)

\* capacity+1 turns were added: exactly the oldest one is gone
C1_Witness ==
    /\ Len(added) = max_history_length + 1
    /\ Len(history) = max_history_length
    /\ history = Pop0(added)
    /\ added[1] # added[2]

(***************************************************************************)
(* Python values.  A str is a sequence of segments (the pieces an f-string *)
(* or a format call puts together), a list is a sequence of strs.          *)
(***************************************************************************)
PyStr(segments) == [t |-> "str", v |-> segments]
PyList(items) == [t |-> "list", v |-> items]
PyNone == [t |-> "NoneType", v |-> <<>>]

\* dict.get(key, default)
Get(d, key, default) == IF key \in DOMAIN d THEN d[key] ELSE default

\* d[key] = value on a dict
DictSet(d, key, value) ==
    [k \in DOMAIN d \cup {key} |-> IF k = key THEN value ELSE d[k]]

\* str.startswith / str.endswith for a one-segment prefix or suffix
startswith(s, prefix) == Len(s) > 0 /\ s[1] = prefix
endswith(s, suffix) == Len(s) > 0 /\ s[Len(s)] = suffix

(***************************************************************************)
(* json.dump / json.load: a str becomes a JSON string, a list an array,    *)
(* None becomes null, and back.  A text that is not well-formed JSON makes *)
(* json.load raise JSONDecodeError.                                        *)
(***************************************************************************)
\* json.dump that writes None as the string "None"
ToJson_none_as_string(x) ==
    IF x.t = "str" THEN [j |-> "string", v |-> x.v]
    ELSE IF x.t = "list" THEN [j |-> "array", v |-> x.v]
    ELSE [j |-> "string", v |-> <<"None">>]

ToJson(x) ==
    IF x.t = "str" THEN [j |-> "string", v |-> x.v]
    ELSE IF x.t = "list" THEN [j |-> "array", v |-> x.v]
    ELSE [j |-> "null", v |-> <<>>]

FromJson(y) ==
    IF y.j = "string" THEN PyStr(y.v)
    ELSE IF y.j = "array" THEN PyList(y.v)
    ELSE PyNone

json_dump(obj) ==
    [wellformed |-> TRUE, members |-> [k \in DOMAIN obj |-> ToJson(obj[k])]]

\* json.load of a text that parses
json_load(text) == [k \in DOMAIN text.members |-> FromJson(text.members[k])]

\* does json.load raise on this text?
JSONDecodeError(text) == ~text.wellformed

(***************************************************************************)
(* datetime: instants are clock ticks, DayTicks of them in a day.          *)
(***************************************************************************)
DayTicks == 2

Instants == 0..MaxNow

\* datetime.strftime("%Y%m%d_%H%M%S")
strftime(t) == <<ToString(t \div DayTicks), "_", ToString(t % DayTicks)>>

\* datetime.isoformat()
isoformat(t) == <<ToString(t \div DayTicks), "T", ToString(t % DayTicks)>>

\* datetime.fromisoformat(s), for a string isoformat produced
fromisoformat(s) == CHOOSE t \in Instants : isoformat(t) = s

\* the cutoff with the window added instead of subtracted
cutoff_date_added(t, days) == t + days * DayTicks

\* datetime.now() - timedelta(days=days)
cutoff_date(t, days) == t - days * DayTicks

\* uuid.uuid4().hex[:8] of the n-th uuid4 call.  The suffixes are taken to be
\* distinct: two calls drawing the same 32 random bits are left out
uuid4_hex8(n) == "x" \o ToString(n)

(***************************************************************************)
(* The project root on disk: the five directories of .project_management,  *)
(* the files in each (name -> text), and the state of the storage: while   *)
(* it is not healthy, only `left` more writes succeed and the next ones    *)
(* raise OSError.                                                          *)
(***************************************************************************)
DirNames == {"base", "logs", "reports", "requirements", "meetings"}

\* the order of the makedirs loop of __init__
DirOrder == <<"base", "logs", "reports", "requirements", "meetings">>

NoFiles == [n \in {} |-> 0]

EmptyRoot ==
    [dirs |-> {}, files |-> [d \in DirNames |-> NoFiles], healthy |-> TRUE, left |-> 0]

\* self.project_metadata_path, within base_dir
project_metadata_path == <<"project_metadata", ".json">>

Writable(f) == f.healthy \/ f.left > 0
Spend(f) == IF f.healthy THEN f ELSE [f EXCEPT !.left = @ - 1]

\* os.listdir
listdir(f, d) == DOMAIN f.files[d]

\* os.path.exists of a file
path_exists(f, d, name) == name \in DOMAIN f.files[d]

\* with open(path, 'w') as f: json.dump(obj, f).  On a storage that fails,
\* open raises OSError before anything is written
write_json(f, d, name, obj) ==
    IF Writable(f)
    THEN [fs |-> [Spend(f) EXCEPT !.files[d] = DictSet(@, name, json_dump(obj))],
          raised |-> ""]
    ELSE [fs |-> f, raised |-> "OSError"]

\* for dir_path in [...]: os.makedirs(dir_path, exist_ok=True), from the i-th on
RECURSIVE makedirs(_, _, _)
makedirs(f, order, i) ==
    IF i > Len(order) THEN [fs |-> f, raised |-> ""]
    ELSE IF order[i] \in f.dirs THEN makedirs(f, order, i + 1)
    ELSE IF Writable(f)
         THEN makedirs([Spend(f) EXCEPT !.dirs = @ \cup {order[i]}], order, i + 1)
         ELSE [fs |-> f, raised |-> "OSError"]

(***************************************************************************)
(* project_management.py: ProjectManager                                   *)
(***************************************************************************)
NoObject == "<no object>"
ProjectNames == {"Confidant"}

initial_metadata(project_name, t) ==
    [project_name |-> PyStr(<<project_name>>),
     created_at |-> PyStr(isoformat(t)),
     last_updated |-> PyStr(isoformat(t)),
     status |-> PyStr(<<"Active">>),
     milestones |-> PyList(<<>>),
     key_objectives |-> PyList(<<>>)]

\* _initialize_project_metadata without the os.path.exists test
initialize_project_metadata_always(f, t, project_name) ==
    write_json(f, "base", project_metadata_path, initial_metadata(project_name, t))

\* ProjectManager._initialize_project_metadata
initialize_project_metadata(f, t, project_name) ==
    IF ~path_exists(f, "base", project_metadata_path)
    THEN write_json(f, "base", project_metadata_path, initial_metadata(project_name, t))
    ELSE [fs |-> f, raised |-> ""]

\* the in-memory update putting the new item first instead of last
updated_metadata_prepend(metadata, t, section, new_item) ==
    LET m1 == IF section \notin DOMAIN metadata
              THEN DictSet(metadata, section, PyList(<<>>))
              ELSE metadata
        m2 == [m1 EXCEPT ![section] = PyList(<<new_item>> \o @.v)]
    IN  DictSet(m2, "last_updated", PyStr(isoformat(t)))

\* the in-memory update assigning a fresh list instead of appending
updated_metadata_replace(metadata, t, section, new_item) ==
    DictSet(DictSet(metadata, section, PyList(<<new_item>>)),
            "last_updated", PyStr(isoformat(t)))

\* the in-memory update stamping created_at as well as last_updated
updated_metadata_stamp_created(metadata, t, section, new_item) ==
    LET m1 == IF section \notin DOMAIN metadata
              THEN DictSet(metadata, section, PyList(<<>>))
              ELSE metadata
        m2 == [m1 EXCEPT ![section] = PyList(Append(@.v, new_item))]
    IN  DictSet(DictSet(m2, "last_updated", PyStr(isoformat(t))),
                "created_at", PyStr(isoformat(t)))

\* _update_project_metadata, the dict after the in-memory update
updated_metadata(metadata, t, section, new_item) ==
    LET m1 == IF section \notin DOMAIN metadata
              THEN DictSet(metadata, section, PyList(<<>>))
              ELSE metadata
        m2 == [m1 EXCEPT ![section] = PyList(Append(@.v, new_item))]
    IN  DictSet(m2, "last_updated", PyStr(isoformat(t)))

\* ProjectManager._update_project_metadata
update_project_metadata(f, t, section, new_item) ==
    IF ~path_exists(f, "base", project_metadata_path)
    THEN [fs |-> f, raised |-> "FileNotFoundError"]
    ELSE IF JSONDecodeError(f.files["base"][project_metadata_path])
    THEN [fs |-> f, raised |-> "JSONDecodeError"]
    ELSE write_json(f, "base", project_metadata_path,
                    updated_metadata(json_load(f.files["base"][project_metadata_path]),
                                     t, section, new_item))

\* the log_* methods ending with a return of the new ID
save_and_index_return_id(f, t, d, section, id, log) ==
    LET w == write_json(f, d, id \o <<".json">>, log)
        up == update_project_metadata(w.fs, t, section, id)
    IN  IF w.raised # ""
        THEN [fs |-> w.fs, raised |-> w.raised, value |-> PyNone, section |-> section,
              id |-> id, log |-> log, at |-> t, written |-> FALSE, indexed |-> FALSE]
        ELSE [fs |-> up.fs, raised |-> up.raised, value |-> PyStr(id),
              section |-> section, id |-> id, log |-> log, at |-> t, written |-> TRUE,
              indexed |-> (up.raised = "")]

\* the two writes in the other order: the index first, then the record file
save_and_index_index_first(f, t, d, section, id, log) ==
    LET up == update_project_metadata(f, t, section, id)
        w == write_json(up.fs, d, id \o <<".json">>, log)
    IN  IF up.raised # ""
        THEN [fs |-> up.fs, raised |-> up.raised, value |-> PyNone, section |-> section,
              id |-> id, log |-> log, at |-> t, written |-> FALSE, indexed |-> FALSE]
        ELSE [fs |-> w.fs, raised |-> w.raised, value |-> PyNone, section |-> section,
              id |-> id, log |-> log, at |-> t, written |-> (w.raised = ""),
              indexed |-> TRUE]

\* the two writes every log_* method ends with: the record file, then the
\* index; the method has no return statement, so a call that does not raise
\* evaluates to None
save_and_index(f, t, d, section, id, log) ==
    LET w == write_json(f, d, id \o <<".json">>, log)
        up == update_project_metadata(w.fs, t, section, id)
    IN  IF w.raised # ""
        THEN [fs |-> w.fs, raised |-> w.raised, value |-> PyNone, section |-> section,
              id |-> id, log |-> log, at |-> t, written |-> FALSE, indexed |-> FALSE]
        ELSE [fs |-> up.fs, raised |-> up.raised, value |-> PyNone, section |-> section,
              id |-> id, log |-> log, at |-> t, written |-> TRUE,
              indexed |-> (up.raised = "")]

\* log_meeting with an ID that has no random suffix
log_meeting_no_suffix(f, t, u, details) ==
    LET timestamp == strftime(t)
        meeting_id == <<"meeting_">> \o timestamp
        meeting_log ==
            [id |-> PyStr(meeting_id),
             timestamp |-> PyStr(timestamp),
             date |-> PyStr(isoformat(t)),
             participants |-> Get(details, "participants", PyList(<<>>)),
             key_discussions |-> Get(details, "key_discussions", PyList(<<>>)),
             action_items |-> Get(details, "action_items", PyList(<<>>)),
             decisions |-> Get(details, "decisions", PyList(<<>>)),
             next_steps |-> Get(details, "next_steps", PyList(<<>>))]
    IN  save_and_index(f, t, "meetings", "meetings", meeting_id, meeting_log)

\* ProjectManager.log_meeting; u is uuid.uuid4().hex[:8]
log_meeting(f, t, u, details) ==
    LET timestamp == strftime(t)
        meeting_id == <<"meeting_">> \o timestamp \o <<"_", u>>
        meeting_log ==
            [id |-> PyStr(meeting_id),
             timestamp |-> PyStr(timestamp),
             date |-> PyStr(isoformat(t)),
             participants |-> Get(details, "participants", PyList(<<>>)),
             key_discussions |-> Get(details, "key_discussions", PyList(<<>>)),
             action_items |-> Get(details, "action_items", PyList(<<>>)),
             decisions |-> Get(details, "decisions", PyList(<<>>)),
             next_steps |-> Get(details, "next_steps", PyList(<<>>))]
    IN  save_and_index(f, t, "meetings", "meetings", meeting_id, meeting_log)

\* ProjectManager.log_requirement_change
log_requirement_change(f, t, u, details) ==
    LET timestamp == strftime(t)
        req_change_id == <<"requirement_">> \o timestamp \o <<"_", u>>
        requirement_log ==
            [id |-> PyStr(req_change_id),
             timestamp |-> PyStr(timestamp),
             date |-> PyStr(isoformat(t)),
             category |-> Get(details, "category", PyStr(<<"General">>)),
             changes |-> Get(details, "changes", PyList(<<>>)),
             rationale |-> Get(details, "rationale", PyStr(<<"">>)),
             impact |-> Get(details, "impact", PyList(<<>>)),
             proposed_by |-> Get(details, "proposed_by", PyStr(<<"Unknown">>))]
    IN  save_and_index(f, t, "requirements", "requirements", req_change_id,
                       requirement_log)

\* ProjectManager.log_milestone
log_milestone(f, t, u, details) ==
    LET timestamp == strftime(t)
        milestone_id == <<"milestone_">> \o timestamp \o <<"_", u>>
        milestone_log ==
            [id |-> PyStr(milestone_id),
             timestamp |-> PyStr(timestamp),
             date |-> PyStr(isoformat(t)),
             name |-> Get(details, "name", PyStr(<<"Unnamed Milestone">>)),
             description |-> Get(details, "description", PyStr(<<"">>)),
             status |-> Get(details, "status", PyStr(<<"Pending">>)),
             completion_date |-> Get(details, "completion_date", PyNone),
             key_achievements |-> Get(details, "key_achievements", PyList(<<>>))]
    IN  save_and_index(f, t, "logs", "milestones", milestone_id, milestone_log)

(***************************************************************************)
(* initialize_project_context: the seed records and the constructor.       *)
(***************************************************************************)
SeedMeeting ==
    [participants |-> PyList(<< <<"Project Lead">>, <<"AI Assistant">> >>),
     key_discussions |->
        PyList(<< <<"Confidant Project Memory Storage Architecture">>,
                  <<"Privacy and Security Mechanisms">> >>),
     action_items |->
        PyList(<< <<"Design local encryption strategy">>,
                  <<"Create security access control specification">> >>),
     decisions |->
        PyList(<< <<"Use end-to-end local encryption">>,
                  <<"Implement multi-tier access control">> >>)]

SeedRequirement ==
    [category |-> PyStr(<<"Technical Requirements">>),
     changes |->
        PyList(<< <<"Added offline functionality specification">>,
                  <<"Enhanced local data privacy requirements">> >>),
     rationale |->
        PyStr(<<"Ensure complete user data protection and system independence">>),
     impact |->
        PyList(<< <<"Requires additional local processing capabilities">>,
                  <<"Increases system security">> >>)]

SeedMilestone ==
    [name |-> PyStr(<<"Initial Architecture Design">>),
     description |->
        PyStr(<<"Complete high-level system design for Confidant project">>),
     status |-> PyStr(<<"Completed">>),
     key_achievements |->
        PyList(<< <<"Defined memory storage approach">>,
                  <<"Outlined security mechanisms">>,
                  <<"Created initial system architecture concept">> >>)]

\* the body of the try block of initialize_project_context; n uuid4 calls were
\* made before.  calls: the log_* calls made, in order
seed_project_context(f, t, n) ==
    LET a == log_meeting(f, t, uuid4_hex8(n + 1), SeedMeeting)
        b == log_requirement_change(a.fs, t, uuid4_hex8(n + 2), SeedRequirement)
        c == log_milestone(b.fs, t, uuid4_hex8(n + 3), SeedMilestone)
    IN  IF ~(/\ listdir(f, "meetings") = {}
             /\ listdir(f, "requirements") = {}
             /\ listdir(f, "logs") = {})
        THEN [fs |-> f, raised |-> "", calls |-> <<>>]
        ELSE IF a.raised # "" THEN [fs |-> a.fs, raised |-> a.raised, calls |-> <<a>>]
        ELSE IF b.raised # "" THEN [fs |-> b.fs, raised |-> b.raised, calls |-> <<a, b>>]
        ELSE [fs |-> c.fs, raised |-> c.raised, calls |-> <<a, b, c>>]

\* initialize_project_context without its try/except
initialize_project_context_unguarded(f, t, n) == seed_project_context(f, t, n)

\* ProjectManager.initialize_project_context: except Exception logs the error
initialize_project_context(f, t, n) ==
    [seed_project_context(f, t, n) EXCEPT !.raised = ""]

\* ProjectManager.__init__
ProjectManager__init__(f, t, n, project_name) ==
    LET d == makedirs(f, DirOrder, 1)
        m == initialize_project_metadata(d.fs, t, project_name)
    IN  IF d.raised # "" THEN [fs |-> d.fs, raised |-> d.raised, calls |-> <<>>]
        ELSE IF m.raised # "" THEN [fs |-> m.fs, raised |-> m.raised, calls |-> <<>>]
        ELSE initialize_project_context(m.fs, t, n)

(***************************************************************************)
(* generate_project_summary                                                *)
(***************************************************************************)
\* the orders os.listdir may enumerate a directory in
Listings(f, d) ==
    LET names == listdir(f, d) IN
    {l \in [1..Cardinality(names) -> names] :
        \A i, j \in 1..Cardinality(names) : i # j => l[i] # l[j]}

\* the files one of the three loops opens
Scanned(d, name) ==
    /\ endswith(name, ".json")
    /\ d = "logs" => startswith(name, "milestone_")

\* the loop with an inclusive comparison, date >= cutoff_date
collect_inclusive(f, d, listing, t, days) ==
    LET recent(name) ==
            /\ Scanned(d, name)
            /\ fromisoformat(json_load(f.files[d][name])["date"].v)
                   >= cutoff_date(t, days)
        names == SelectSeq(listing, recent)
    IN  [i \in 1..Len(names) |-> json_load(f.files[d][names[i]])]

\* one "Collect ..." loop, over the enumeration `listing` of directory d
collect(f, d, listing, t, days) ==
    LET recent(name) ==
            /\ Scanned(d, name)
            /\ fromisoformat(json_load(f.files[d][name])["date"].v)
                   > cutoff_date(t, days)
        names == SelectSeq(listing, recent)
    IN  [i \in 1..Len(names) |-> json_load(f.files[d][names[i]])]

\* ProjectManager.generate_project_summary; ls gives the enumeration of each
\* directory.  json.load is not guarded: a file that does not parse ends the call
generate_project_summary(f, project_name, t, days, ls) ==
    IF \E d \in {"meetings", "requirements", "logs"} :
          \E name \in listdir(f, d) :
              Scanned(d, name) /\ JSONDecodeError(f.files[d][name])
    THEN [raised |-> "JSONDecodeError", value |-> PyNone]
    ELSE [raised |-> "",
          value |->
            [project_name |-> PyStr(<<project_name>>),
             summary_period |-> PyStr(<<"Last ", ToString(days), " days">>),
             meetings |-> collect(f, "meetings", ls.meetings, t, days),
             requirement_changes |->
                 collect(f, "requirements", ls.requirements, t, days),
             milestones |-> collect(f, "logs", ls.logs, t, days)]]

\* every enumeration of the three directories
AllListings(f) ==
    [meetings : Listings(f, "meetings"),
     requirements : Listings(f, "requirements"),
     logs : Listings(f, "logs")]

(***************************************************************************)
(* Python text: str(), repr(), ', '.join, str.lower and the `in` test.  A  *)
(* text of segments is flattened to one string where characters count.     *)
(***************************************************************************)
\* the line break of the f-strings
NL == "\n"

\* the segments of a sequence of texts, one after the other
RECURSIVE Concat(_, _)
Concat(texts, i) ==
    IF i > Len(texts) THEN <<>> ELSE texts[i] \o Concat(texts, i + 1)

\* sep.join(texts), from the i-th text on
RECURSIVE join(_, _, _)
join(sep, texts, i) ==
    IF i > Len(texts) THEN <<>>
    ELSE IF i = Len(texts) THEN texts[i]
    ELSE texts[i] \o <<sep>> \o join(sep, texts, i + 1)

\* the characters of a string, each a text of its own
Chars(s) == [i \in 1..Len(s) |-> <<SubSeq(s, i, i)>>]

\* the one string a text of segments spells
RECURSIVE Flat(_, _)
Flat(segments, i) ==
    IF i > Len(segments) THEN "" ELSE segments[i] \o Flat(segments, i + 1)

\* ', '.join(x) inside get_recent_context: x must be an iterable of strs; a
\* str is one, of its characters, and None is none
joined(x) ==
    IF x.t = "list" THEN [raised |-> "", value |-> join(", ", x.v, 1)]
    ELSE IF x.t = "str"
    THEN [raised |-> "", value |-> join(", ", Chars(Flat(x.v, 1)), 1)]
    ELSE [raised |-> "TypeError", value |-> <<>>]

\* repr(x) of a str without quotes in it, of a list of such strs, of None
repr(x) ==
    IF x.t = "str" THEN <<"'">> \o x.v \o <<"'">>
    ELSE IF x.t = "list"
    THEN <<"[">>
         \o join(", ", [i \in 1..Len(x.v) |-> <<"'">> \o x.v[i] \o <<"'">>], 1)
         \o <<"]">>
    ELSE <<"None">>

\* str(x) as an f-string renders it
str(x) == IF x.t = "str" THEN x.v ELSE repr(x)

\* the keys of the three record dicts, in the order log_* builds them and
\* json.load returns them
KeysOf(kind) ==
    IF kind = "meetings"
    THEN <<"id", "timestamp", "date", "participants", "key_discussions",
           "action_items", "decisions", "next_steps">>
    ELSE IF kind = "requirement_changes"
    THEN <<"id", "timestamp", "date", "category", "changes", "rationale",
           "impact", "proposed_by">>
    ELSE <<"id", "timestamp", "date", "name", "description", "status",
           "completion_date", "key_achievements">>

\* str(record) of a record dict of the given kind
str_dict(kind, record) ==
    LET keys == SelectSeq(KeysOf(kind), LAMBDA k : k \in DOMAIN record)
        item(i) == <<"'", keys[i], "': ">> \o repr(record[keys[i]])
    IN  Flat(<<"{">> \o join(", ", [i \in 1..Len(keys) |-> item(i)], 1) \o <<"}">>, 1)

Upper == <<"A", "B", "C", "D", "E", "F", "G", "H", "I", "J", "K", "L", "M",
           "N", "O", "P", "Q", "R", "S", "T", "U", "V", "W", "X", "Y", "Z">>
Lower == <<"a", "b", "c", "d", "e", "f", "g", "h", "i", "j", "k", "l", "m",
           "n", "o", "p", "q", "r", "s", "t", "u", "v", "w", "x", "y", "z">>

\* the lower-case letter of every upper-case letter
LowerOf == [c \in {Upper[i] : i \in 1..26} |-> Lower[CHOOSE i \in 1..26 : Upper[i] = c]]

\* str.lower of one character
lower_char(c) == IF c \in DOMAIN LowerOf THEN LowerOf[c] ELSE c

\* str.lower, character by character (the string is split in halves to keep
\* the evaluation shallow)
RECURSIVE lower(_)
lower(s) ==
    IF Len(s) = 0 THEN ""
    ELSE IF Len(s) = 1 THEN lower_char(s)
    ELSE LET h == Len(s) \div 2 IN
         lower(SubSeq(s, 1, h)) \o lower(SubSeq(s, h + 1, Len(s)))

\* needle in hay, for two strings
contains(hay, needle) ==
    \E i \in 0..(Len(hay) - Len(needle)) : SubSeq(hay, i + 1, i + Len(needle)) = needle

(***************************************************************************)
(* export_project_report, get_recent_context and get_category_summary,     *)
(* the three readers built on generate_project_summary.                    *)
(***************************************************************************)
\* the default of the days parameter
DefaultDays == 30

\* json.dump of a summary: its two strs and its three lists of record dicts
json_dump_summary(summary) ==
    [wellformed |-> TRUE,
     members |->
        [k \in DOMAIN summary |->
            IF k \in {"project_name", "summary_period"} THEN ToJson(summary[k])
            ELSE [j |-> "array",
                  v |-> [i \in 1..Len(summary[k]) |-> json_dump(summary[k][i]).members]]]]

\* ProjectManager.export_project_report
export_project_report(f, project_name, t, days, ls) ==
    LET s == generate_project_summary(f, project_name, t, days, ls)
        d == makedirs(f, <<"reports">>, 1)
        report_filename == <<"project_report_">> \o strftime(t) \o <<".json">>
    IN  IF s.raised # "" THEN [fs |-> f, raised |-> s.raised, value |-> PyNone]
        ELSE IF d.raised # "" THEN [fs |-> d.fs, raised |-> d.raised, value |-> PyNone]
        ELSE IF ~Writable(d.fs) THEN [fs |-> d.fs, raised |-> "OSError", value |-> PyNone]
        ELSE [fs |-> [Spend(d.fs) EXCEPT !.files["reports"] =
                         DictSet(@, report_filename, json_dump_summary(s.value))],
              raised |-> "",
              value |-> PyStr(<<"reports", "/">> \o report_filename)]

\* the "- date: a, b" line of a meeting (key "key_discussions") or of a
\* requirement change (key "changes")
dated_line(record, key) ==
    LET j == joined(Get(record, key, PyList(<<>>))) IN
    [raised |-> j.raised,
     value |-> <<"- ">> \o str(Get(record, "date", PyStr(<<"Unknown Date">>)))
               \o <<": ">> \o j.value \o <<NL>>]

\* the "- name: status" line of a milestone
milestone_line(record) ==
    <<"- ">> \o str(Get(record, "name", PyStr(<<"Unnamed Milestone">>)))
    \o <<": ">> \o str(Get(record, "status", PyStr(<<"No status">>))) \o <<NL>>

\* the text with the label of an empty section left out
context_text_omit_empty(summary, days) ==
    LET m == [i \in 1..Len(summary.meetings) |->
                 dated_line(summary.meetings[i], "key_discussions")]
        r == [i \in 1..Len(summary.requirement_changes) |->
                 dated_line(summary.requirement_changes[i], "changes")]
        l == [i \in 1..Len(summary.milestones) |-> milestone_line(summary.milestones[i])]
    IN  [raised |-> "",
         value |-> <<"Recent Project Context (Last ", ToString(days), " days):", NL, NL>>
                   \o (IF m = <<>> THEN <<>> ELSE <<"Meetings:", NL>>)
                   \o Concat([i \in DOMAIN m |-> m[i].value], 1)
                   \o (IF r = <<>> THEN <<>> ELSE <<NL, "Requirement Changes:", NL>>)
                   \o Concat([i \in DOMAIN r |-> r[i].value], 1)
                   \o (IF l = <<>> THEN <<>> ELSE <<NL, "Milestones:", NL>>)
                   \o Concat(l, 1)]

\* the text the try block of get_recent_context builds from a summary
context_text(summary, days) ==
    LET m == [i \in 1..Len(summary.meetings) |->
                 dated_line(summary.meetings[i], "key_discussions")]
        r == [i \in 1..Len(summary.requirement_changes) |->
                 dated_line(summary.requirement_changes[i], "changes")]
        l == [i \in 1..Len(summary.milestones) |-> milestone_line(summary.milestones[i])]
    IN  [raised |-> IF \E i \in DOMAIN m : m[i].raised # "" THEN "TypeError"
                    ELSE IF \E i \in DOMAIN r : r[i].raised # "" THEN "TypeError"
                    ELSE "",
         value |-> <<"Recent Project Context (Last ", ToString(days), " days):", NL, NL>>
                   \o <<"Meetings:", NL>>
                   \o Concat([i \in DOMAIN m |-> m[i].value], 1)
                   \o <<NL, "Requirement Changes:", NL>>
                   \o Concat([i \in DOMAIN r |-> r[i].value], 1)
                   \o <<NL, "Milestones:", NL>>
                   \o Concat(l, 1)]

\* get_recent_context without its try/except
get_recent_context_unguarded(f, project_name, t, days, ls) ==
    LET s == generate_project_summary(f, project_name, t, days, ls)
        c == context_text(s.value, days)
    IN  IF s.raised # "" THEN [raised |-> s.raised, value |-> PyNone, failed |-> TRUE]
        ELSE IF c.raised # "" THEN [raised |-> c.raised, value |-> PyNone, failed |-> TRUE]
        ELSE [raised |-> "", value |-> PyStr(c.value), failed |-> FALSE]

\* ProjectManager.get_recent_context: except Exception returns a text that
\* names the error; failed tells that the except branch was taken
get_recent_context(f, project_name, t, days, ls) ==
    LET r == get_recent_context_unguarded(f, project_name, t, days, ls) IN
    IF r.raised # ""
    THEN [raised |-> "",
          value |-> PyStr(<<"Unable to generate project context. Error: ", r.raised>>),
          failed |-> TRUE]
    ELSE r

\* category.lower() in str(record).lower()
matches(kind, record, category) ==
    contains(lower(str_dict(kind, record)), lower(category))

\* get_category_summary with a case-sensitive test
get_category_summary_case_sensitive(f, project_name, t, category, ls) ==
    LET s == generate_project_summary(f, project_name, t, DefaultDays, ls)
        filtered(kind) ==
            SelectSeq(s.value[kind],
                      LAMBDA rec : contains(str_dict(kind, rec), category))
    IN  IF s.raised # "" THEN [raised |-> "", value |-> NoFiles]
        ELSE [raised |-> "",
              value |-> [meetings |-> filtered("meetings"),
                         requirement_changes |-> filtered("requirement_changes"),
                         milestones |-> filtered("milestones")]]

\* ProjectManager.get_category_summary: except Exception returns {}
get_category_summary(f, project_name, t, category, ls) ==
    LET s == generate_project_summary(f, project_name, t, DefaultDays, ls)
        filtered(kind) ==
            SelectSeq(s.value[kind], LAMBDA rec : matches(kind, rec, category))
    IN  IF s.raised # "" THEN [raised |-> "", value |-> NoFiles]
        ELSE [raised |-> "",
              value |-> [meetings |-> filtered("meetings"),
                         requirement_changes |-> filtered("requirement_changes"),
                         milestones |-> filtered("milestones")]]

(***************************************************************************)
(* The calls made on the ProjectManager, one action per call.              *)
(***************************************************************************)
\* the details dictionaries callers pass; a key the method does not know is
\* ignored, a key left out takes the method's default
MeetingDetails ==
    {[notes |-> PyStr(<<"not a meeting field">>)],
     [participants |-> PyList(<< <<"User">>, <<"AI Assistant">> >>),
      key_discussions |-> PyList(<< <<"How to store memories">> >>)]}

RequirementDetails ==
    {[rationale |-> PyStr(<<"Local Encryption is mandatory">>),
      changes |-> PyList(<< <<"Added key rotation">> >>),
      proposed_by |-> PyStr(<<"Project Security Team">>)]}

MilestoneDetails ==
    {[name |-> PyStr(<<"Prototype">>), completion_date |-> PyStr(<<"2025-01-10">>)]}

Windows == 0..MaxDays

\* what the history variable keeps of one log_* call
Entry(call, by) ==
    [by |-> by, section |-> call.section, id |-> call.id, log |-> call.log,
     at |-> call.at, written |-> call.written, indexed |-> call.indexed]

Entries(calls, by) == [i \in 1..Len(calls) |-> Entry(calls[i], by)]

\* number of appends callers made (the seed records are the constructor's)
ByCallers == Cardinality({i \in 1..Len(appended) : appended[i].by = "caller"})

\* number of seedings that stopped at a write that failed
SeedFailures ==
    Cardinality({i \in 1..Len(appended) :
        appended[i].by = "__init__" /\ ~appended[i].indexed})

Outcome(op, arg, raised, value) ==
    [op |-> op, arg |-> arg, raised |-> raised, value |-> value]

\* the requests that may run log_* calls at the same time
Writers == {"writer1", "writer2"}

\* a writer that has not started its call
NotRunning ==
    [pc |-> "idle", section |-> "", id |-> <<>>, log |-> <<>>, metadata |-> <<>>]

\* no call is in progress: the last outcome went to its caller
Idle == ret.op = "none"

StoreInit ==
    /\ now = 0
    /\ fs = EmptyRoot
    /\ pm = NoObject
    /\ uuids = 0
    /\ ret = Outcome("none", 0, "", PyNone)
    /\ appended = <<>>
    /\ writers = [w \in Writers |-> NotRunning]

\* no DevAssistant.run call was made yet
NoRun ==
    [pc |-> "idle", session |-> "", query |-> "", project_context |-> <<>>,
     context_failed |-> FALSE, system |-> <<>>, messages |-> <<>>, calls |-> 0,
     provider |-> "",
     ai_response |-> "", logged |-> "", added0 |-> <<>>, files0 |-> EmptyRoot.files]

ChatInit ==
    /\ run = NoRun
    /\ chats = 0
    /\ origin = <<>>

\* the clock advances
Tick ==
    /\ Idle
    /\ now < MaxNow
    /\ now' = now + 1
    /\ UNCHANGED <<fs, pm, uuids, ret, appended, convVars, writers, chatVars>>

\* ProjectManager(project_root, project_name)
Construct(project_name) ==
    LET r == ProjectManager__init__(fs, now, uuids, project_name) IN
    /\ Idle
    /\ SeedFailures < MaxSeedFailures
    /\ fs' = r.fs
    /\ pm' = IF r.raised = "" THEN project_name ELSE pm
    /\ uuids' = uuids + Len(r.calls)
    /\ ret' = Outcome("__init__", 0, r.raised, PyNone)
    /\ appended' = appended \o Entries(r.calls, "__init__")
    /\ UNCHANGED <<now, convVars, writers, chatVars>>

\* the effect of one log_* call r on the state
Logged(op, r) ==
    /\ fs' = r.fs
    /\ uuids' = uuids + 1
    /\ ret' = Outcome(op, 0, r.raised, r.value)
    /\ appended' = Append(appended, Entry(r, "caller"))
    /\ UNCHANGED <<now, pm, convVars, writers, chatVars>>

LogMeeting(details) ==
    /\ Idle
    /\ pm # NoObject
    /\ ByCallers < MaxAppends
    /\ Logged("log_meeting", log_meeting(fs, now, uuid4_hex8(uuids + 1), details))

LogRequirementChange(details) ==
    /\ Idle
    /\ pm # NoObject
    /\ ByCallers < MaxAppends
    /\ Logged("log_requirement_change",
              log_requirement_change(fs, now, uuid4_hex8(uuids + 1), details))

LogMilestone(details) ==
    /\ Idle
    /\ pm # NoObject
    /\ ByCallers < MaxAppends
    /\ Logged("log_milestone", log_milestone(fs, now, uuid4_hex8(uuids + 1), details))

GenerateProjectSummary(days) ==
    /\ Idle
    /\ pm # NoObject
    /\ \E ls \in AllListings(fs) :
          LET r == generate_project_summary(fs, pm, now, days, ls) IN
          ret' = Outcome("generate_project_summary", days, r.raised, r.value)
    /\ UNCHANGED <<now, fs, pm, uuids, appended, convVars, writers, chatVars>>

\* the caller takes the outcome of the call
Return ==
    /\ ~Idle
    /\ ret' = Outcome("none", 0, "", PyNone)
    /\ UNCHANGED <<now, fs, pm, uuids, appended, convVars, writers, chatVars>>

\* the categories the project_context endpoint is asked for
Categories == {"encryption", "Security", "none"}

ExportProjectReport(days) ==
    /\ Idle
    /\ pm # NoObject
    /\ \E ls \in AllListings(fs) :
          LET r == export_project_report(fs, pm, now, days, ls) IN
          /\ fs' = r.fs
          /\ ret' = Outcome("export_project_report", days, r.raised, r.value)
    /\ UNCHANGED <<now, pm, uuids, appended, convVars, writers, chatVars>>

GetRecentContext(days) ==
    /\ Idle
    /\ pm # NoObject
    /\ \E ls \in AllListings(fs) :
          LET r == get_recent_context(fs, pm, now, days, ls) IN
          ret' = Outcome("get_recent_context", days, r.raised, r.value)
    /\ UNCHANGED <<now, fs, pm, uuids, appended, convVars, writers, chatVars>>

GetCategorySummary(category) ==
    /\ Idle
    /\ pm # NoObject
    /\ \E ls \in AllListings(fs) :
          LET r == get_category_summary(fs, pm, now, category, ls) IN
          ret' = Outcome("get_category_summary", category, r.raised, r.value)
    /\ UNCHANGED <<now, fs, pm, uuids, appended, convVars, writers, chatVars>>

Next ==
    \/ Tick
    \/ Return
    \/ \E project_name \in ProjectNames : Construct(project_name)
    \/ \E details \in MeetingDetails : LogMeeting(details)
    \/ \E details \in RequirementDetails : LogRequirementChange(details)
    \/ \E details \in MilestoneDetails : LogMilestone(details)
    \/ \E days \in Windows : GenerateProjectSummary(days)

\* the conversation manager of the process, left alone
ConvIdle == ConvInit /\ max_history_length = MaxCapacity

Init == ConvIdle /\ StoreInit /\ ChatInit
Spec == Init /\ [][Next]_vars

\* every operation of the ProjectManager, at one instant of the clock: the
\* windows are the empty one and the default, which covers every record
NextOps ==
    \/ Return
    \/ \E project_name \in ProjectNames : Construct(project_name)
    \/ \E details \in MeetingDetails : LogMeeting(details)
    \/ \E details \in RequirementDetails : LogRequirementChange(details)
    \/ \E details \in MilestoneDetails : LogMilestone(details)
    \/ \E days \in {0, DefaultDays} : GenerateProjectSummary(days)
    \/ \E days \in {0, DefaultDays} : ExportProjectReport(days)
    \/ \E days \in {0, DefaultDays} : GetRecentContext(days)
    \/ \E category \in Categories : GetCategorySummary(category)

SpecOps == Init /\ [][NextOps]_vars

\* the conversation manager alone
InitConv == ConvInit /\ StoreInit /\ ChatInit
SpecConv == InitConv /\ [][NextConv]_vars

(***************************************************************************)
(* What the claims about the record store are stated with.                 *)
(***************************************************************************)
Sections == {"meetings", "requirements", "milestones"}

\* the key of the summary that holds the records of a Metadata section
SummaryKey(section) ==
    IF section = "requirements" THEN "requirement_changes" ELSE section

\* the directory that holds the record files of a Metadata section
SectionDir(section) == IF section = "milestones" THEN "logs" ELSE section

SeqToSet(q) == {q[i] : i \in DOMAIN q}

LogOps == {"log_meeting", "log_requirement_change", "log_milestone"}

\* the windows the claims are checked for, the action's and one day either side
ClaimWindows == (0 - 1)..(MaxDays + 1)

\* the records of a section whose file was written strictly after now - days
WrittenAfterCutoff(section, days) ==
    {appended[i].log : i \in {j \in 1..Len(appended) :
        /\ appended[j].section = section
        /\ appended[j].written
        /\ appended[j].at > now - days * DayTicks}}

\* the IDs of a section's appends, in the order the appends were made
RECURSIVE AppendedIds(_, _)
AppendedIds(section, n) ==
    IF n = 0 THEN <<>>
    ELSE IF appended[n].section = section
         THEN Append(AppendedIds(section, n - 1), appended[n].id)
         ELSE AppendedIds(section, n - 1)

\* what a generate_project_summary call made now returns, for every window of
\* the claims and every enumeration of the directories
Summaries ==
    {[days |-> days, summary |-> generate_project_summary(fs, pm, now, days, ls)] :
        days \in ClaimWindows, ls \in AllListings(fs)}

\* the Metadata dict on disk
MetadataOnDisk == json_load(fs.files["base"][project_metadata_path])

\* the ID list of a Metadata section, empty while the section is missing
IndexOf(section) == Get(MetadataOnDisk, section, PyList(<<>>)).v

(***************************************************************************)
(* C2: every record appended through log_meeting, log_requirement_change   *)
(* or log_milestone is returned by a later generate_project_summary whose  *)
(* window covers the record's date, in the sequence of its kind, with      *)
(* every stored field equal to the value written at append time.           *)
(***************************************************************************)
C2_AppendedRecordReturned ==
    (Idle /\ pm # NoObject) =>
        \A p \in Summaries :
            /\ p.summary.raised = ""
            /\ \A i \in 1..Len(appended) :
                  appended[i].at > now - p.days * DayTicks =>
                      LET e == appended[i] IN
                      \E k \in DOMAIN p.summary.value[SummaryKey(e.section)] :
                          LET got == p.summary.value[SummaryKey(e.section)][k] IN
                          /\ DOMAIN got = DOMAIN e.log
                          /\ \A field \in DOMAIN e.log : got[field] = e.log[field]

\* a summary that returned a caller's meeting and a seed milestone, whose
\* completion_date is None
C2_Witness ==
    /\ ret.op = "generate_project_summary"
    /\ ret.raised = ""
    /\ \E i \in 1..Len(appended) :
          /\ appended[i].by = "caller"
          /\ appended[i].section = "meetings"
          /\ appended[i].log \in SeqToSet(ret.value.meetings)
    /\ \E k \in DOMAIN ret.value.milestones :
          ret.value.milestones[k].completion_date = PyNone

(***************************************************************************)
(* C4: for the same record store and the same instant, for all windows     *)
(* W1 < W2, every record generate_project_summary(W1) returns in a kind's  *)
(* sequence is also returned by generate_project_summary(W2) in it.        *)
(***************************************************************************)
C4_WindowMonotone ==
    (Idle /\ pm # NoObject) =>
        \A p1, p2 \in Summaries :
            /\ p1.summary.raised = ""
            /\ p1.days < p2.days =>
                  \A section \in Sections :
                      SeqToSet(p1.summary.value[SummaryKey(section)])
                          \subseteq SeqToSet(p2.summary.value[SummaryKey(section)])

\* the one-day window returns a meeting and the two-day window one more
C4_Witness ==
    /\ pm # NoObject
    /\ \E ls \in AllListings(fs) :
          LET s1 == generate_project_summary(fs, pm, now, 1, ls)
              s2 == generate_project_summary(fs, pm, now, 2, ls)
          IN  /\ Len(s1.value.meetings) = 1
              /\ Len(s2.value.meetings) = 2

(***************************************************************************)
(* C5: generate_project_summary(windowDays) includes a record if and only  *)
(* if its date is strictly later than now - windowDays; a record dated     *)
(* exactly at the cutoff is excluded, for each of the three kinds.         *)
(***************************************************************************)
C5_StrictCutoff ==
    (ret.op = "generate_project_summary" /\ ret.raised = "") =>
        \A section \in Sections :
            LET got == ret.value[SummaryKey(section)] IN
            /\ SeqToSet(got) = WrittenAfterCutoff(section, ret.arg)
            /\ Len(got) = Cardinality(SeqToSet(got))

\* a summary taken when the three seed records are exactly windowDays old,
\* which leaves them out and returns a later meeting
C5_Witness ==
    /\ ret.op = "generate_project_summary"
    /\ ret.raised = ""
    /\ ret.arg >= 1
    /\ \A section \in Sections :
          \E i \in 1..Len(appended) :
              /\ appended[i].section = section
              /\ appended[i].at = now - ret.arg * DayTicks
              /\ appended[i].log \notin SeqToSet(ret.value[SummaryKey(section)])
    /\ Len(ret.value.meetings) = 1

(***************************************************************************)
(* C6: when appends run one after another, each append of a kind adds      *)
(* exactly one ID, the new record's, to the end of the matching Metadata   *)
(* section: a section lists the IDs of all appends of its kind, in the     *)
(* order they were made (21 IDs after 21 appends).                         *)
(***************************************************************************)
C6_IndexListsEveryAppend ==
    pm # NoObject =>
        \A section \in Sections :
            IndexOf(section) = AppendedIds(section, Len(appended))

\* the meetings section holds the seed meeting's ID, then a caller's
C6_Witness ==
    /\ pm # NoObject
    /\ Len(IndexOf("meetings")) = 2
    /\ appended[Len(appended)].by = "caller"
    /\ IndexOf("meetings")[2] = appended[Len(appended)].id
    /\ IndexOf("meetings")[1] = appended[1].id

C10_ReturnsNewId ==
    (ret.op \in LogOps /\ ret.raised = "") =>
        ret.value = PyStr(appended[Len(appended)].id)

(***************************************************************************)
(* C10 as amended: each append operation returns None; the ID of the       *)
(* record it has just created is the id field of the new record file and   *)
(* the last entry of the matching Metadata section.                        *)
(***************************************************************************)
C10_ReturnsNone ==
    (ret.op \in LogOps /\ ret.raised = "") =>
        LET e == appended[Len(appended)] IN
        /\ ret.value = PyNone
        /\ path_exists(fs, SectionDir(e.section), e.id \o <<".json">>)
        /\ json_load(fs.files[SectionDir(e.section)][e.id \o <<".json">>]).id
               = PyStr(e.id)
        /\ IndexOf(e.section)[Len(IndexOf(e.section))] = e.id

\* log_requirement_change has just returned
C10_Witness ==
    /\ ret.op = "log_requirement_change"
    /\ ret.raised = ""
    /\ appended[Len(appended)].section = "requirements"

(***************************************************************************)
(* A record file corrupted by hand: its text no longer parses as JSON.     *)
(***************************************************************************)
RecordDirs == {"meetings", "requirements", "logs"}

Corrupted(f) ==
    {<<d, name>> \in UNION {{d} \X listdir(f, d) : d \in RecordDirs} :
        JSONDecodeError(f.files[d][name])}

\* somebody damages one record file; at most one file is damaged at a time
CorruptFile(d, name) ==
    /\ Idle
    /\ pm # NoObject
    /\ Corrupted(fs) = {}
    /\ fs' = [fs EXCEPT !.files[d][name].wellformed = FALSE]
    /\ UNCHANGED <<now, pm, uuids, ret, appended, convVars, writers, chatVars>>

NextCorrupt ==
    \/ Next
    \/ \E d \in RecordDirs : \E name \in listdir(fs, d) : CorruptFile(d, name)

SpecCorrupt == Init /\ [][NextCorrupt]_vars

\* the records of a section written strictly after now - days whose file
\* still parses
IntactAfterCutoff(section, days) ==
    {appended[i].log : i \in {j \in 1..Len(appended) :
        /\ appended[j].section = section
        /\ appended[j].written
        /\ appended[j].at > now - days * DayTicks
        /\ <<SectionDir(section), appended[j].id \o <<".json">> >> \notin Corrupted(fs)}}

(***************************************************************************)
(* C3: a record file that contains invalid JSON does not abort             *)
(* generate_project_summary: the scan completes and returns every other    *)
(* in-window record, omitting only the corrupt one.                        *)
(***************************************************************************)
C3_CorruptRecordSkipped ==
    ret.op = "generate_project_summary" =>
        /\ ret.raised = ""
        /\ \A section \in Sections :
              SeqToSet(ret.value[SummaryKey(section)])
                  = IntactAfterCutoff(section, ret.arg)

(***************************************************************************)
(* Storage failures: the storage starts to fail (disk full, permissions)   *)
(* after `left` more writes, and recovers.                                 *)
(***************************************************************************)
StorageFails(left) ==
    /\ Idle
    /\ fs.healthy
    /\ fs' = [fs EXCEPT !.healthy = FALSE, !.left = left]
    /\ UNCHANGED <<now, pm, uuids, ret, appended, convVars, writers, chatVars>>

StorageRecovers ==
    /\ Idle
    /\ ~fs.healthy
    /\ fs' = [fs EXCEPT !.healthy = TRUE, !.left = 0]
    /\ UNCHANGED <<now, pm, uuids, ret, appended, convVars, writers, chatVars>>

NextFault ==
    \/ Return
    \/ \E project_name \in ProjectNames : Construct(project_name)
    \/ \E details \in MeetingDetails : LogMeeting(details)
    \/ \E details \in RequirementDetails : LogRequirementChange(details)
    \/ \E details \in MilestoneDetails : LogMilestone(details)
    \/ \E left \in 0..MaxLeft : StorageFails(left)
    \/ StorageRecovers

SpecFault == Init /\ [][NextFault]_vars

\* the three category directories hold no file
AllEmpty(f) ==
    /\ listdir(f, "meetings") = {}
    /\ listdir(f, "requirements") = {}
    /\ listdir(f, "logs") = {}

(***************************************************************************)
(* C9: at initialization, seed records are written if and only if all      *)
(* three category directories are empty, and then exactly one Meeting, one *)
(* RequirementChange and one Milestone are appended, in that order (up to  *)
(* the first write that fails); a failure during seeding is caught and     *)
(* never propagates out of the constructor.                                *)
(***************************************************************************)
C9_SeedsIffAllEmpty ==
    [][(Idle /\ ret'.op = "__init__") =>
          LET new == SubSeq(appended', Len(appended) + 1, Len(appended'))
              order == <<"meetings", "requirements", "milestones">>
          IN  /\ SubSeq(appended', 1, Len(appended)) = appended
              \* the constructor raises only out of makedirs or the Metadata
              \* creation, before any seeding
              /\ ret'.raised # "" =>
                    /\ new = <<>>
                    /\ \/ fs'.dirs # DirNames
                       \/ ~path_exists(fs', "base", project_metadata_path)
              \* once past them, it seeds iff the three directories are empty
              /\ ret'.raised = "" => (new # <<>> <=> AllEmpty(fs))
              /\ ~AllEmpty(fs) => \A d \in RecordDirs : fs'.files[d] = fs.files[d]
              \* one record of each kind, in order, up to the first failure
              /\ Len(new) <= 3
              /\ \A i \in 1..Len(new) :
                    /\ new[i].section = order[i]
                    /\ new[i].by = "__init__"
                    /\ i < Len(new) => (new[i].written /\ new[i].indexed)
                    /\ new[i].written <=>
                          listdir(fs', SectionDir(order[i])) = {new[i].id \o <<".json">>}
              /\ \A i \in (Len(new) + 1)..3 :
                    listdir(fs', SectionDir(order[i])) = listdir(fs, SectionDir(order[i]))
              /\ (Len(new) \in 1..2 \/ (Len(new) = 3 /\ ~new[3].indexed)) => ~fs'.healthy
              /\ (AllEmpty(fs) /\ fs.healthy) =>
                    (Len(new) = 3 /\ new[3].written /\ new[3].indexed)
      ]_vars

\* a constructor that returned although the seeding failed half-way: the seed
\* meeting is stored and indexed, the seed requirement change could not be
\* written, and no milestone was tried
C9_Witness ==
    /\ ret.op = "__init__"
    /\ ret.raised = ""
    /\ Len(appended) >= 2
    /\ LET a == appended[Len(appended) - 1]
           b == appended[Len(appended)]
       IN  /\ a.by = "__init__" /\ a.section = "meetings" /\ a.indexed
           /\ b.by = "__init__" /\ b.section = "requirements" /\ ~b.written
    /\ listdir(fs, "meetings") # {}
    /\ listdir(fs, "requirements") = {}
    /\ listdir(fs, "logs") = {}

(***************************************************************************)
(* Two log_* calls running at the same time (two requests of the web       *)
(* endpoints, or two processes on one project root), each taken step by    *)
(* step: build the record, write the record file, read Metadata, write     *)
(* Metadata.  Nothing locks the Metadata file between the last two steps.  *)
(***************************************************************************)
\* the log_* call of an endpoint, for its id, log and section
LogCall(op, f, t, u, details) ==
    IF op = "log_meeting" THEN log_meeting(f, t, u, details)
    ELSE IF op = "log_requirement_change" THEN log_requirement_change(f, t, u, details)
    ELSE log_milestone(f, t, u, details)

DetailsOf(op) ==
    IF op = "log_meeting" THEN MeetingDetails
    ELSE IF op = "log_requirement_change" THEN RequirementDetails
    ELSE MilestoneDetails

\* the project after ProjectManager("...", "Confidant") at instant 0
Constructed == ProjectManager__init__(EmptyRoot, 0, 0, "Confidant")

InitRace ==
    /\ ConvIdle
    /\ now = 0
    /\ fs = Constructed.fs
    /\ pm = "Confidant"
    /\ uuids = Len(Constructed.calls)
    /\ ret = Outcome("none", 0, "", PyNone)
    /\ appended = Entries(Constructed.calls, "__init__")
    /\ writers = [w \in Writers |-> NotRunning]
    /\ ChatInit

\* log_*: the id and the record dict are built
BeginAppend(w, op, details) ==
    LET call == LogCall(op, fs, now, uuid4_hex8(uuids + 1), details) IN
    /\ writers[w].pc = "idle"
    /\ writers' = [writers EXCEPT ![w] =
            [pc |-> "write_record", section |-> call.section, id |-> call.id,
             log |-> call.log, metadata |-> <<>>]]
    /\ uuids' = uuids + 1
    /\ UNCHANGED <<now, fs, pm, ret, appended, convVars, chatVars>>

\* log_*: with open(path, 'w') as f: json.dump(log, f)
WriteRecord(w) ==
    LET me == writers[w]
        r == write_json(fs, SectionDir(me.section), me.id \o <<".json">>, me.log)
    IN  /\ me.pc = "write_record"
        /\ fs' = r.fs
        /\ writers' = [writers EXCEPT ![w].pc = "read_metadata"]
        /\ UNCHANGED <<now, pm, uuids, ret, appended, convVars, chatVars>>

\* _update_project_metadata: open(path, 'r+') and json.load
ReadMetadata(w) ==
    /\ writers[w].pc = "read_metadata"
    /\ writers' = [writers EXCEPT ![w].pc = "write_metadata",
                                  ![w].metadata = MetadataOnDisk]
    /\ UNCHANGED <<now, fs, pm, uuids, ret, appended, convVars, chatVars>>

\* _update_project_metadata: the append, then seek(0), json.dump and truncate
WriteMetadata(w) ==
    LET me == writers[w]
        r == write_json(fs, "base", project_metadata_path,
                        updated_metadata(me.metadata, now, me.section, me.id))
    IN  /\ me.pc = "write_metadata"
        /\ fs' = r.fs
        /\ writers' = [writers EXCEPT ![w].pc = "done"]
        /\ appended' = Append(appended,
              [by |-> w, section |-> me.section, id |-> me.id, log |-> me.log,
               at |-> fromisoformat(me.log.date.v), written |-> TRUE,
               indexed |-> TRUE])
        /\ UNCHANGED <<now, pm, uuids, ret, convVars, chatVars>>

NextRace ==
    \/ Tick
    \/ \E w \in Writers, op \in LogOps : \E details \in DetailsOf(op) :
          BeginAppend(w, op, details)
    \/ \E w \in Writers : WriteRecord(w)
    \/ \E w \in Writers : ReadMetadata(w)
    \/ \E w \in Writers : WriteMetadata(w)

SpecRace == InitRace /\ [][NextRace]_vars

\* the entries of the appends the two writers completed, in the order of
\* their Metadata writes
Completed == SelectSeq(appended, LAMBDA e : e.by \in Writers)

(***************************************************************************)
(* C7: when two appends interleave their unlocked Metadata read-modify-    *)
(* write cycles, the last write wins: both record files are on disk, the   *)
(* index holds the ID of the append that wrote Metadata last, and it holds *)
(* the other append's ID exactly when the last writer read Metadata after  *)
(* the other had written it; otherwise that update is lost.                *)
(***************************************************************************)
C7_LastWriteWins ==
    Len(Completed) >= 1 =>
        LET last == Completed[Len(Completed)] IN
        /\ \A i \in 1..Len(Completed) :
              path_exists(fs, SectionDir(Completed[i].section),
                          Completed[i].id \o <<".json">>)
        /\ Len(IndexOf(last.section)) >= 1
        /\ IndexOf(last.section)[Len(IndexOf(last.section))] = last.id
        /\ \A i \in 1..Len(Constructed.calls) :
              appended[i].id \in SeqToSet(IndexOf(appended[i].section))
        /\ \A i \in 1..(Len(Completed) - 1) :
              LET other == Completed[i] IN
              other.id \in SeqToSet(IndexOf(other.section))
                  <=> other.id \in SeqToSet(
                          Get(writers[last.by].metadata, other.section,
                              PyList(<<>>)).v)

\* both appends are complete and both record files exist, but the index
\* holds only one of the two new IDs
C7_Witness ==
    /\ \A w \in Writers : writers[w].pc = "done"
    /\ Len(Completed) = 2
    /\ \A i \in 1..2 :
          path_exists(fs, SectionDir(Completed[i].section),
                      Completed[i].id \o <<".json">>)
    /\ Completed[2].id \in SeqToSet(IndexOf(Completed[2].section))
    /\ Completed[1].id \notin SeqToSet(IndexOf(Completed[1].section))

(***************************************************************************)
(* web_app.py: DevAssistant.run, one chat turn, statement by statement.    *)
(* The requests of all chat sessions are served by the one dev_assistant,  *)
(* on the one conversation_manager and the one confidant_project of the    *)
(* process, one call at a time.                                            *)
(***************************************************************************)
Sessions == {"session1", "session2"}

\* the question each chat session asks
QueryOf(session) ==
    IF session = "session1" THEN "How are memories stored?" ELSE "Which milestone is next?"

Replies == {"Memories are stored as encrypted local files."}
ProviderErrors == {"APIConnectionError"}

\* the text of the except branch of the context retrieval
FallbackContext ==
    <<"Default Project Context:", NL,
      "Confidant is a privacy-focused, locally-run AI agent designed to preserve personal memories ",
      NL,
      "and provide secure, confidential data storage with robust access control mechanisms.">>

\* try: project_context = confidant_project.get_recent_context()
\* except Exception: project_context = the fallback text
run_project_context(r) ==
    IF r.raised # "" THEN FallbackContext ELSE r.value.v

\* the system= argument of client.messages.create
system_prompt(project_context) ==
    <<"You are an expert AI assistant helping with the Confidant project.", NL, NL,
      "Project Context:", NL>>
    \o project_context
    \o <<NL, NL, "Your responsibilities:", NL,
         "- Provide clear, concise, and actionable advice", NL,
         "- Use markdown for code formatting", NL,
         "- Help with project development, design, and strategy", NL,
         "- Break down complex topics into easy-to-understand explanations", NL,
         "- Maintain and build upon the project's context and progress", NL,
         "- Offer strategic insights based on the project's current state">>

\* a message list that holds the current query only
run_messages_query_only(h, query) == <<Turn("user", query)>>

\* messages = conversation_manager.get_context_messages()
run_messages(h, query) == get_context_messages(h)

\* the details of the meeting logged after the chat
chat_meeting(query, ai_response) ==
    [participants |-> PyList(<< <<"User">>, <<"AI Assistant">> >>),
     key_discussions |-> PyList(<< <<query>> >>),
     action_items |->
        PyList(<< <<SubSeq(ai_response, 1, Min(200, Len(ai_response))), "...">> >>)]

\* the log_meeting call of run without its try/except
run_log_meeting_unguarded(f, t, u, query, ai_response) ==
    LET r == log_meeting(f, t, u, chat_meeting(query, ai_response)) IN
    r @@ [failed |-> r.raised]

\* try: confidant_project.log_meeting({...})
\* except Exception: a warning is logged; failed keeps what was raised
run_log_meeting(f, t, u, query, ai_response) ==
    LET r == log_meeting(f, t, u, chat_meeting(query, ai_response)) IN
    [r EXCEPT !.raised = ""] @@ [failed |-> r.raised]

\* str(e) of the exceptions the run meets
exception_text(e) ==
    IF e = "IndexError" THEN "list index out of range"
    ELSE IF e = "APIConnectionError" THEN "Connection error."
    ELSE e

\* an except branch that lets the exception through
run_except_reraise(e, h) == [raised |-> e, value |-> PyNone, history |-> h]

\* an except branch that takes the last turn back out of the buffer
run_except_rollback(e, h) ==
    [raised |-> "",
     value |-> PyStr(<<"An error occurred while processing your request. Please try again. Error details: ",
                       exception_text(e)>>),
     history |-> SubSeq(h, 1, Len(h) - 1)]

\* except Exception as e: the error is logged and an error text returned;
\* the conversation buffer h is left as it is
run_except(e, h) ==
    [raised |-> "",
     value |-> PyStr(<<"An error occurred while processing your request. Please try again. Error details: ",
                       exception_text(e)>>),
     history |-> h]

\* no run call is being served
NoChat == run.pc = "idle"

\* the process after its imports: confidant_project constructed, the
\* conversation manager empty
InitChat ==
    /\ ConvIdle
    /\ now = 0
    /\ fs = Constructed.fs
    /\ pm = "Confidant"
    /\ uuids = Len(Constructed.calls)
    /\ ret = Outcome("none", 0, "", PyNone)
    /\ appended = Entries(Constructed.calls, "__init__")
    /\ writers = [w \in Writers |-> NotRunning]
    /\ ChatInit

\* chat_endpoint has returned the response of the last run to the browser
ChatReturn ==
    /\ ~Idle
    /\ NoChat
    /\ ret' = Outcome("none", 0, "", PyNone)
    /\ run' = NoRun
    /\ UNCHANGED <<convVars, now, fs, pm, uuids, appended, writers, chats, origin>>

\* dev_assistant.run(query), called by chat_endpoint for a request of `session`
RunBegin(session, query) ==
    /\ Idle
    /\ NoChat
    /\ chats < MaxChats
    /\ run' = [NoRun EXCEPT !.pc = "context", !.session = session, !.query = query,
                            !.added0 = added, !.files0 = fs.files]
    /\ chats' = chats + 1
    /\ UNCHANGED <<convVars, storeVars, origin>>

\* the retrieval of the project context
RunGetContext ==
    /\ run.pc = "context"
    /\ \E ls \in AllListings(fs) :
          LET r == get_recent_context(fs, pm, now, DefaultDays, ls) IN
          run' = [run EXCEPT !.pc = "add_user",
                             !.project_context = run_project_context(r),
                             !.context_failed = r.failed]
    /\ UNCHANGED <<convVars, storeVars, chats, origin>>

\* conversation_manager.add_message("user", query)
RunAddUser ==
    /\ run.pc = "add_user"
    /\ history' = add_message(history, max_history_length, "user", run.query)
    /\ added' = Append(added, Turn("user", run.query))
    /\ origin' = Append(origin, run.session)
    /\ run' = [run EXCEPT !.pc = "call"]
    /\ UNCHANGED <<max_history_length, messages, storeVars, chats>>

\* the snapshot is taken and self.client.messages.create called
RunCallProvider ==
    /\ run.pc = "call"
    /\ run' = [run EXCEPT !.pc = "provider",
                          !.messages = run_messages(history, run.query),
                          !.system = system_prompt(run.project_context),
                          !.calls = @ + 1]
    /\ messages' = run_messages(history, run.query)
    /\ UNCHANGED <<history, max_history_length, added, storeVars, chats, origin>>

\* the provider returns a response with one text block
ProviderReplies(text) ==
    /\ run.pc = "provider"
    /\ run' = [run EXCEPT !.pc = "add_assistant", !.provider = "reply",
                          !.ai_response = text]
    /\ UNCHANGED <<convVars, storeVars, chats, origin>>

\* the call ends in the except branch of run
RunFails(e) ==
    LET r == run_except(e, history) IN
    /\ run' = [run EXCEPT !.pc = "idle", !.provider = e]
    /\ ret' = Outcome("run", run.query, r.raised, r.value)
    /\ history' = r.history
    /\ UNCHANGED <<max_history_length, messages, added, now, fs, pm, uuids, appended,
                   writers, chats, origin>>

\* the provider returns a response without content: response.content[0]
\* raises IndexError
ProviderRepliesEmpty ==
    /\ run.pc = "provider"
    /\ RunFails("IndexError")

\* a provider call that is made again after it raised
ProviderFails_retry(e) ==
    /\ run.pc = "provider"
    /\ run' = [run EXCEPT !.pc = "call", !.provider = ""]
    /\ UNCHANGED <<convVars, storeVars, chats, origin>>

\* the provider call raises
ProviderFails(e) ==
    /\ run.pc = "provider"
    /\ RunFails(e)

\* conversation_manager.add_message("assistant", ai_response)
RunAddAssistant ==
    /\ run.pc = "add_assistant"
    /\ history' = add_message(history, max_history_length, "assistant", run.ai_response)
    /\ added' = Append(added, Turn("assistant", run.ai_response))
    /\ origin' = Append(origin, run.session)
    /\ run' = [run EXCEPT !.pc = "log"]
    /\ UNCHANGED <<max_history_length, messages, storeVars, chats>>

\* the meeting log after the chat; what its try block lets through ends the
\* call in the except branch of run
RunLogMeeting ==
    LET r == run_log_meeting(fs, now, uuid4_hex8(uuids + 1), run.query, run.ai_response)
        x == run_except(r.raised, history)
        logged == IF r.failed = "" THEN "logged" ELSE r.failed
    IN  /\ run.pc = "log"
        /\ IF r.raised # ""
           THEN /\ run' = [run EXCEPT !.pc = "idle", !.logged = logged]
                /\ ret' = Outcome("run", run.query, x.raised, x.value)
                /\ history' = x.history
           ELSE /\ run' = [run EXCEPT !.pc = "return", !.logged = logged]
                /\ ret' = ret
                /\ history' = history
        /\ fs' = r.fs
        /\ uuids' = uuids + 1
        /\ appended' = Append(appended, Entry(r, "run"))
        /\ UNCHANGED <<max_history_length, messages, added, now, pm, writers, chats,
                       origin>>

\* return ai_response
RunReturn ==
    /\ run.pc = "return"
    /\ run' = [run EXCEPT !.pc = "idle"]
    /\ ret' = Outcome("run", run.query, "", PyStr(<<run.ai_response>>))
    /\ UNCHANGED <<convVars, now, fs, pm, uuids, appended, writers, chats, origin>>

\* the reset endpoint: conversation_manager.reset()
ResetConversation ==
    /\ Idle
    /\ NoChat
    /\ history' = reset(history)
    /\ added' = <<>>
    /\ origin' = <<>>
    /\ UNCHANGED <<max_history_length, messages, storeVars, run, chats>>

\* the steps of the chat, a provider that may fail included
NextChat ==
    \/ \E session \in Sessions : RunBegin(session, QueryOf(session))
    \/ RunGetContext
    \/ RunAddUser
    \/ RunCallProvider
    \/ \E text \in Replies : ProviderReplies(text)
    \/ ProviderRepliesEmpty
    \/ \E e \in ProviderErrors : ProviderFails(e)
    \/ RunAddAssistant
    \/ RunLogMeeting
    \/ RunReturn
    \/ ChatReturn
    \/ ResetConversation

SpecChat == InitChat /\ [][NextChat]_vars

\* between two chat turns somebody damages a record file
ChatCorruptFile(d, name) == NoChat /\ CorruptFile(d, name)

\* between two chat turns the storage starts to fail, or recovers
ChatStorageFails(left) == NoChat /\ StorageFails(left)
ChatStorageRecovers == NoChat /\ StorageRecovers

\* the chat on a store that is damaged and on a storage that fails
NextChatFault ==
    \/ NextChat
    \/ \E d \in RecordDirs : \E name \in listdir(fs, d) : ChatCorruptFile(d, name)
    \/ \E left \in 0..MaxLeft : ChatStorageFails(left)
    \/ ChatStorageRecovers

SpecChatFault == InitChat /\ [][NextChatFault]_vars

(***************************************************************************)
(* What the claims about the chat are stated with.                         *)
(***************************************************************************)
\* the error text run returns for an exception of its try block
ErrorReply(e) ==
    PyStr(<<"An error occurred while processing your request. Please try again. Error details: ",
            exception_text(e)>>)

\* the run being served has got its project context
HasContext == run.pc \in {"add_user", "call", "provider", "add_assistant", "log", "return"}

\* the provider did not give a reply: it raised, or its response was empty
ProviderFailed == run.provider \in ProviderErrors \cup {"IndexError"}

(***************************************************************************)
(* C11: whenever obtaining the project context fails in DevAssistant.run   *)
(* (the summary scan raises, say), the project-context text placed in the  *)
(* system prompt is the fixed fallback description, and the chat turn      *)
(* continues to the LLM call.                                              *)
(***************************************************************************)
C11_FallbackOnContextFailure ==
    (HasContext /\ run.context_failed) =>
        /\ run.project_context = FallbackContext
        /\ run.pc = "provider" => run.system = system_prompt(FallbackContext)

C13_LogFailureInvisible ==
    (ret.op = "run" /\ run.provider = "reply" /\ run.logged # "logged") =>
        /\ ret.raised = ""
        /\ ret.value = PyStr(<<run.ai_response>>)
        /\ history[Len(history)] = Turn("assistant", run.ai_response)
        /\ added = run.added0
                     \o <<Turn("user", run.query), Turn("assistant", run.ai_response)>>

\* a run whose log_meeting raised OSError after the record file was written
\* (the Metadata write failed), and one that returned the reply
C13_Witness ==
    /\ ret.op = "run"
    /\ run.provider = "reply"
    /\ run.logged = "OSError"
    /\ appended[Len(appended)].by = "run"
    /\ appended[Len(appended)].written
    /\ ~appended[Len(appended)].indexed
    /\ ret.value = PyStr(<<"Memories are stored as encrypted local files.">>)

(***************************************************************************)
(* C16: in every DevAssistant.run call that reaches the provider, the      *)
(* user's turn is appended to the conversation buffer before the provider  *)
(* is called, the message list passed to the provider is the buffer        *)
(* snapshot whose last element is the current user query, and the          *)
(* assistant turn is appended only after the provider has returned,        *)
(* directly after that user turn.                                          *)
(***************************************************************************)
C16_TurnsAroundProviderCall ==
    LET user == Turn("user", run.query)
        assistant == Turn("assistant", run.ai_response)
    IN  /\ run.pc \in {"context", "add_user"} =>
              added = run.added0 /\ run.calls = 0
        /\ run.pc = "call" =>
              added = Append(run.added0, user) /\ run.calls = 0
        /\ run.pc = "provider" =>
              /\ added = Append(run.added0, user)
              /\ run.messages = get_context_messages(history)
              /\ run.messages[Len(run.messages)] = user
              /\ run.provider = ""
        /\ run.pc = "add_assistant" =>
              /\ run.provider = "reply"
              /\ added = Append(run.added0, user)
        /\ run.pc \in {"log", "return"} =>
              /\ run.provider = "reply"
              /\ added = run.added0 \o <<user, assistant>>
              /\ history[Len(history)] = assistant
              /\ history[Len(history) - 1] = user

\* the second chat turn is at the provider: the snapshot that was passed
\* ends with its query, after a turn of the first chat
C16_Witness ==
    /\ run.pc = "provider"
    /\ chats = 2
    /\ Len(run.messages) = 2
    /\ run.messages[2] = Turn("user", run.query)
    /\ run.messages[1].role = "assistant"

(***************************************************************************)
(* C18: the conversation buffer is one process-wide store without          *)
(* per-session isolation: a turn appended while serving one chat session's *)
(* query is part of the message list sent to the provider for a later      *)
(* query of a different session, until it is evicted or the buffer is      *)
(* reset.                                                                  *)
(***************************************************************************)
C18_NoSessionIsolation ==
    run.pc = "provider" =>
        LET k == Min(Len(added), max_history_length) IN
        /\ Len(origin) = Len(added)
        /\ Len(run.messages) = k
        /\ \A j \in 1..k : run.messages[j] = added[Len(added) - k + j]

\* the provider is sent, for a query of one session, a turn that was
\* appended for the other session
C18_Witness ==
    /\ run.pc = "provider"
    /\ \E j \in 1..Len(run.messages) :
          /\ origin[Len(origin) - Len(run.messages) + j] # run.session
          /\ run.messages[j] = added[Len(added) - Len(run.messages) + j]
          /\ run.messages[j].content # run.query

(***************************************************************************)
(* C20: when the LLM provider call fails inside DevAssistant.run, the      *)
(* user's turn that was appended before the call stays in the conversation *)
(* buffer, no assistant turn is appended, and no meeting record is written *)
(* for that exchange.                                                      *)
(***************************************************************************)
C20_FailedCallKeepsUserTurn ==
    (ret.op = "run" /\ ProviderFailed) =>
        /\ added = Append(run.added0, Turn("user", run.query))
        /\ history = LastK(added, Min(Len(added), max_history_length))
        /\ history[Len(history)] = Turn("user", run.query)
        /\ fs.files = run.files0
        /\ run.logged = ""

\* the second chat turn failed at the provider: the buffer holds the
\* assistant turn of the first chat and the user turn of the second
C20_Witness ==
    /\ ret.op = "run"
    /\ run.provider = "APIConnectionError"
    /\ Len(history) = 2
    /\ history[1].role = "assistant"
    /\ history[2] = Turn("user", run.query)
    /\ Cardinality(listdir(fs, "meetings")) = 2

(***************************************************************************)
(* A crash of the process inside an append, between the write of the       *)
(* record file and the update of Metadata; the process is started again    *)
(* by a new ProjectManager(...).                                           *)
(***************************************************************************)
CrashBetweenWrites(op, details) ==
    LET call == LogCall(op, fs, now, uuid4_hex8(uuids + 1), details)
        w == write_json(fs, SectionDir(call.section), call.id \o <<".json">>, call.log)
    IN  /\ Idle
        /\ pm # NoObject
        /\ ByCallers < MaxAppends
        /\ w.raised = ""
        /\ fs' = w.fs
        /\ pm' = NoObject
        /\ uuids' = uuids + 1
        /\ appended' = Append(appended,
              [by |-> "caller", section |-> call.section, id |-> call.id,
               log |-> call.log, at |-> now, written |-> TRUE, indexed |-> FALSE])
        /\ UNCHANGED <<now, ret, convVars, writers, chatVars>>

NextCrash ==
    \/ NextFault
    \/ \E op \in LogOps : \E details \in DetailsOf(op) : CrashBetweenWrites(op, details)

SpecCrash == Init /\ [][NextCrash]_vars

\* the appends whose record file was written but whose ID is not in the index
Orphans ==
    {i \in 1..Len(appended) :
        /\ appended[i].written
        /\ appended[i].id \notin SeqToSet(IndexOf(appended[i].section))}

(***************************************************************************)
(* C19: in every reachable state, the state left by a crash between the    *)
(* two writes of an append included, every ID listed in a Metadata section *)
(* names a record file that exists in the matching directory; the converse *)
(* may fail (an orphan record file that the index does not list), and such *)
(* an orphan is still returned by generate_project_summary.                *)
(***************************************************************************)
C19_IndexedRecordsExist ==
    path_exists(fs, "base", project_metadata_path) =>
        /\ \A section \in Sections :
              \A k \in 1..Len(IndexOf(section)) :
                  path_exists(fs, SectionDir(section), IndexOf(section)[k] \o <<".json">>)
        /\ \A i \in Orphans, ls \in AllListings(fs) :
              LET s == generate_project_summary(fs, "Confidant", now, DefaultDays, ls) IN
              /\ s.raised = ""
              /\ appended[i].log \in SeqToSet(s.value[SummaryKey(appended[i].section)])

\* the state a crash between the two writes left: the requirement change
\* is on disk, the index does not list it, the summary returns it
C19_Witness ==
    /\ pm = NoObject
    /\ Len(appended) = 4
    /\ Orphans = {4}
    /\ appended[4].section = "requirements"
    /\ path_exists(fs, "requirements", appended[4].id \o <<".json">>)
    /\ IndexOf("requirements") = <<appended[2].id>>
    /\ \E ls \in AllListings(fs) :
          appended[4].log \in
              SeqToSet(generate_project_summary(fs, "Confidant", now, DefaultDays, ls)
                           .value.requirement_changes)

(***************************************************************************)
(* What the claims about the readers are stated with.                      *)
(***************************************************************************)
\* needle occurs in hay when the case of the letters is ignored
ContainsIgnoringCase(hay, needle) ==
    \E i \in 0..(Len(hay) - Len(needle)) :
        \A k \in 1..Len(needle) :
            lower_char(SubSeq(hay, i + k, i + k)) = lower_char(SubSeq(needle, k, k))

\* the written records of a section whose str() contains the category
Matching(section, category) ==
    {rec \in WrittenAfterCutoff(section, DefaultDays) :
        ContainsIgnoringCase(str_dict(SummaryKey(section), rec), category)}

\* text.splitlines(): the lines of a text, each without its line break
RECURSIVE splitlines(_, _, _)
splitlines(text, i, line) ==
    IF i > Len(text) THEN (IF line = <<>> THEN <<>> ELSE <<line>>)
    ELSE IF text[i] = NL THEN <<line>> \o splitlines(text, i + 1, <<>>)
    ELSE splitlines(text, i + 1, Append(line, text[i]))

\* the position of the first line equal to `line`, 0 if there is none
LineNo(lines, line) ==
    IF \E i \in DOMAIN lines : lines[i] = line
    THEN CHOOSE i \in DOMAIN lines : lines[i] = line /\ \A j \in 1..(i - 1) : lines[j] # line
    ELSE 0

C17_RecordFilesImmutable ==
    [][\A d \in RecordDirs :
          \A name \in listdir(fs, d) :
              /\ name \in listdir(fs', d)
              /\ fs'.files[d][name] = fs.files[d][name]]_vars

\* a report was exported and a caller's record appended after the seed
\* records, which are on disk as they were written
C17_Witness ==
    /\ listdir(fs, "reports") # {}
    /\ ByCallers = 1
    /\ Len(appended) = 4
    /\ \A i \in 1..3 :
          /\ appended[i].by = "__init__"
          /\ fs.files[SectionDir(appended[i].section)][appended[i].id \o <<".json">>]
                 = json_dump(appended[i].log)

(***************************************************************************)
(* Appends while the clock advances and the storage may fail: a seeding    *)
(* stopped by a failing write leaves Metadata without the sections of the  *)
(* records not yet seeded, and a later append is stamped with a later      *)
(* instant than the creation of Metadata.                                  *)
(***************************************************************************)
\* the clock advances once the project holds a record: no later constructor
\* seeds it again
TickAfterCreation ==
    /\ pm # NoObject
    /\ ~AllEmpty(fs)
    /\ fs.healthy
    /\ Tick

\* the storage starts to fail before the clock has advanced
EarlyStorageFails(left) ==
    /\ now = 0
    /\ StorageFails(left)

NextFaultTick ==
    \/ TickAfterCreation
    \/ Return
    \/ \E project_name \in ProjectNames : Construct(project_name)
    \/ \E details \in MeetingDetails : LogMeeting(details)
    \/ \E details \in RequirementDetails : LogRequirementChange(details)
    \/ \E details \in MilestoneDetails : LogMilestone(details)
    \/ \E left \in 0..MaxLeft : EarlyStorageFails(left)
    \/ StorageRecovers

SpecFaultTick == Init /\ [][NextFaultTick]_vars

\* the keys of Metadata an append of a record of this section may write
Touched(section) == {section, "last_updated"}

(***************************************************************************)
(* C21: an append of one kind changes in Metadata only the matching        *)
(* section's ID list, which gets the new ID at its end, and last_updated,  *)
(* which gets the instant of the append: project_name, created_at, status  *)
(* and the ID lists of the other two sections (every other key) are left   *)
(* as they were, and a section missing from Metadata is created as a list  *)
(* holding just the new ID.  An append that fails changes nothing in       *)
(* Metadata.                                                               *)
(***************************************************************************)
C21_AppendFrame ==
    [][(Idle /\ ret'.op \in LogOps) =>
          LET e == appended'[Len(appended')]
              before == MetadataOnDisk
              after == MetadataOnDisk'
          IN  /\ Len(appended') = Len(appended) + 1
              /\ \A key \in DOMAIN before \ Touched(e.section) :
                    key \in DOMAIN after /\ after[key] = before[key]
              /\ e.indexed =>
                    /\ DOMAIN after = DOMAIN before \cup {e.section}
                    /\ after[e.section] =
                          PyList(Append(Get(before, e.section, PyList(<<>>)).v, e.id))
                    /\ e.section \notin DOMAIN before =>
                          after[e.section] = PyList(<<e.id>>)
                    /\ after.last_updated = PyStr(isoformat(now))
              /\ ~e.indexed => after = before
      ]_vars

\* a requirement change appended by a caller, at a later instant than the
\* creation of Metadata, into a Metadata that had no requirements section
\* (the seeding had stopped after the seed meeting): the section holds just
\* the new ID, the meetings section still holds the seed meeting's
C21_Witness ==
    /\ ret.op = "log_requirement_change"
    /\ ret.raised = ""
    /\ appended[Len(appended)].indexed
    /\ appended[Len(appended)].at > 0
    /\ IndexOf("requirements") = <<appended[Len(appended)].id>>
    /\ \E i \in 1..Len(appended) :
          /\ appended[i].by = "__init__"
          /\ appended[i].indexed
          /\ IndexOf("meetings") = <<appended[i].id>>
    /\ IndexOf("milestones") = <<>>
    /\ MetadataOnDisk.created_at # MetadataOnDisk.last_updated

\* the meeting files written since the run being served began
NewMeetingFiles == listdir(fs, "meetings") \ DOMAIN run.files0["meetings"]

\* number of log_meeting calls made by run calls so far
ByRuns == Cardinality({i \in 1..Len(appended) : appended[i].by = "run"})

\* a run call is being served, or has ended and its response is not yet sent
Serving == run.session # ""

(***************************************************************************)
(* C22: each DevAssistant.run call makes at most one provider call and     *)
(* writes at most one meeting record, and it writes that record only after *)
(* the provider has returned a reply and the assistant turn has been       *)
(* appended to the conversation buffer; nothing is retried after a         *)
(* failure: a failed provider call ends the run without a record, and a    *)
(* failed log_meeting is not called again.                                 *)
(***************************************************************************)
C22_OneCallOneRecord ==
    Serving =>
        /\ run.calls <= 1
        /\ ByRuns <= chats
        /\ Cardinality(NewMeetingFiles) <= 1
        /\ \A d \in DirNames \ {"base", "meetings"} : fs.files[d] = run.files0[d]
        \* before log_meeting is called the run has written nothing
        /\ run.logged = "" => fs.files = run.files0
        \* log_meeting is called after the reply and the assistant turn
        /\ run.logged # "" =>
              /\ run.calls = 1
              /\ run.provider = "reply"
              /\ added = run.added0 \o <<Turn("user", run.query),
                                         Turn("assistant", run.ai_response)>>
              /\ appended[Len(appended)].by = "run"
              /\ appended[Len(appended)].written =>
                    NewMeetingFiles = {appended[Len(appended)].id \o <<".json">>}
              /\ ~appended[Len(appended)].written => NewMeetingFiles = {}
        \* a provider call that failed ended the run
        /\ ProviderFailed =>
              /\ run.pc = "idle"
              /\ run.calls = 1
              /\ run.logged = ""
              /\ ret.op = "run"

\* the second run has logged its meeting, the one meeting record run calls
\* have written: the first run ended at a provider call that failed
C22_Witness ==
    /\ chats = 2
    /\ ret.op = "run"
    /\ run.logged = "logged"
    /\ run.calls = 1
    /\ ByRuns = 1
    /\ Cardinality(NewMeetingFiles) = 1
    /\ Len(added) = 3
    /\ added[1].role = "user" /\ added[2].role = "user"

====
